---- MODULE Spec2Model ----
(***************************************************************************)
(* tauri-plugin-spotlight: the configuration merge (src/config.rs) and the *)
(* macOS SpotlightManager with its shortcut wiring                         *)
(* (src/spotlight_macos/spotlight.rs).                                     *)
(*                                                                         *)
(* Rust Option<T> is modelled as a sequence of length at most one:         *)
(* None is <<>>, Some(v) is <<v>>.  Some(vec![]) is << <<>> >>, which is   *)
(* different from None.                                                    *)
(***************************************************************************)
EXTENDS Integers, Sequences, FiniteSets, TLC

None == <<>>
Some(v) == <<v>>

\* ---------------------------------------------------------------- bounds
\* Longest window list of a configuration handed to merge.
MaxLen == 2

\* ------------------------------------------------------- configuration
\* struct WindowConfig
WindowConfig(label, shortcut, level, auto_hide) ==
    [label |-> label, shortcut |-> shortcut,
     macos_window_level |-> level, auto_hide |-> auto_hide]

\* struct PluginConfig
PluginConfig(windows, close) ==
    [windows |-> windows, global_close_shortcut |-> close]

\* PluginConfig::default(): both fields None
DefaultConfig == PluginConfig(None, None)

\* Window entries the merge inputs are built from: two labels, each with two
\* entries that differ in every other field.
MergeEntries ==
    { WindowConfig("main", Some("Ctrl+I"), None, None),
      WindowConfig("main", None, Some(20), Some(TRUE)),
      WindowConfig("foo", Some("bar"), None, None),
      WindowConfig("foo", Some("Ctrl+I"), Some(20), Some(FALSE)) }

SeqsUpTo(S, n) == UNION { [1..k -> S] : k \in 0..n }

MergeConfigs ==
    { PluginConfig(w, g) :
        w \in {None} \cup { Some(ws) : ws \in SeqsUpTo(MergeEntries, MaxLen) },
        g \in {None, Some("Escape"), Some("baz")} }

\* The labels of a window list (the key set of `dict`, config.rs:25-28).
dict_keys(windows) == { windows[i].label : i \in DOMAIN windows }

\* config.rs:19-24: a.windows if present, else b.windows if present, else [].
chosen_windows_b_first(a, b) ==
    IF b.windows # None THEN b.windows[1]
    ELSE IF a.windows # None THEN a.windows[1]
    ELSE <<>>

chosen_windows(a, b) ==
    IF a.windows # None THEN a.windows[1]
    ELSE IF b.windows # None THEN b.windows[1]
    ELSE <<>>

\* config.rs:29-40: the loop over b.windows; dict is not updated by a push.
RECURSIVE push_secondary_dedup(_, _, _)
push_secondary_dedup(windows, dict, w) ==
    IF w = <<>> THEN windows
    ELSE LET config == Head(w) IN
         IF config.label \notin dict
         THEN push_secondary_dedup(Append(windows, config),
                                   dict \cup {config.label}, Tail(w))
         ELSE push_secondary_dedup(windows, dict, Tail(w))

RECURSIVE push_secondary_merge_fields(_, _, _)
push_secondary_merge_fields(windows, dict, w) ==
    IF w = <<>> THEN windows
    ELSE LET config == Head(w) IN
         IF config.label \notin dict
         THEN push_secondary_merge_fields(Append(windows, config), dict, Tail(w))
         ELSE push_secondary_merge_fields(
                [i \in DOMAIN windows |->
                    IF windows[i].label = config.label
                       /\ windows[i].shortcut = None
                    THEN [windows[i] EXCEPT !.shortcut = config.shortcut]
                    ELSE windows[i]],
                dict, Tail(w))

RECURSIVE push_secondary_all(_, _, _)
push_secondary_all(windows, dict, w) ==
    IF w = <<>> THEN windows
    ELSE push_secondary_all(Append(windows, Head(w)), dict, Tail(w))

RECURSIVE push_secondary(_, _, _)
push_secondary(windows, dict, w) ==
    IF w = <<>> THEN windows
    ELSE LET config == Head(w) IN
         IF config.label \notin dict
         THEN push_secondary(Append(windows, config), dict, Tail(w))
         ELSE push_secondary(windows, dict, Tail(w))

\* config.rs:42-48: an empty list becomes None.
windows_field_keep_empty(windows) == Some(windows)

windows_field(windows) ==
    IF Len(windows) = 0 THEN None ELSE Some(windows)

\* config.rs:49-52: a.global_close_shortcut.or(b.global_close_shortcut)
close_field_b_first(a, b) ==
    IF b.global_close_shortcut # None THEN b.global_close_shortcut
    ELSE a.global_close_shortcut

close_field(a, b) ==
    IF a.global_close_shortcut # None THEN a.global_close_shortcut
    ELSE b.global_close_shortcut

\* PluginConfig::merge
merge(a, b) ==
    LET windows == chosen_windows(a, b)
        dict    == dict_keys(windows)
        pushed  == IF b.windows # None
                   THEN push_secondary(windows, dict, b.windows[1])
                   ELSE windows
    IN  PluginConfig(windows_field(pushed), close_field(a, b))

\* ------------------------------------------------------ manager inputs
\* Most init_spotlight_window calls made for one window.
MaxInit == 2

\* Labels of the application's windows; "other" is never configured.
WindowLabels == {"main", "foo", "other"}

\* Shortcut strings that occur in the configurations below.
Keys == {"Ctrl+I", "bar", "Escape"}

Plain(label, shortcut) == WindowConfig(label, shortcut, None, None)

\* Configurations the manager is constructed with.
ManagerConfigs ==
    { PluginConfig(Some(<<Plain("main", Some("Ctrl+I")), Plain("foo", Some("bar"))>>),
                   Some("Escape")),
      PluginConfig(Some(<<Plain("main", Some("Ctrl+I")), Plain("foo", None)>>),
                   None),
      PluginConfig(Some(<<Plain("main", Some("Escape")), Plain("foo", Some("bar"))>>),
                   Some("Escape")),
      PluginConfig(Some(<<Plain("main", Some("Ctrl+I")), Plain("foo", Some("Ctrl+I"))>>),
                   Some("Escape")),
      PluginConfig(Some(<<Plain("main", Some("Ctrl+I")), Plain("main", Some("bar"))>>),
                   None),
      PluginConfig(None, Some("Escape")) }

\* Keys another application holds: the backend rejects their registration.
RejectedChoices == { {}, {"Ctrl+I"}, {"Escape"} }

\* Callbacks held by the shortcut backend.
ToggleCallback(label) == <<"toggle", label>>
CloseCallback == <<"close">>

\* ------------------------------------------------------------- state
VARIABLES
    ma,          \* first argument of the merge call
    mb,          \* second argument of the merge call
    mc,          \* Option: the configuration the call returned
    config,      \* SpotlightManager.config
    panels,      \* SpotlightManager.panels: label -> Option<panel handle>
    created,     \* label -> number of panels created for that window
    visible,     \* label -> native visibility of the window's panel
    shortcuts,   \* shortcut backend: key -> Option<callback>
    rejected,    \* keys the backend refuses (held by another application)
    toggle_regs, \* label -> successful toggle shortcut registrations
    close_regs,  \* successful close shortcut registrations
    inits,       \* label -> init_spotlight_window calls made so far
    panicked,    \* a shortcut callback panicked
    last,        \* the last call: operation, label, result, close-shortcut step
    native,      \* the panel call the last operation issued
    pc,          \* thread -> position inside the operation it runs
    arg,         \* thread -> the label or key its operation was called with
    loc,         \* thread -> the labels its close callback has left
    made,        \* thread -> Option: the panel its init created
    seen,        \* thread -> Option: the visibility its toggle callback read
    ret,         \* thread -> result of its last finished operation
    ops,         \* operations the threads have started
    rw_writer,   \* Option: the thread holding panels' write lock
    rw_readers,  \* the threads holding panels' read lock
    mutex,       \* label -> Option: the thread holding that panel's Mutex
    known,       \* history: thread -> labels registered when its close callback started
    swept,       \* history: thread -> labels its close callback called order_out on
    reshown      \* history: thread -> swept labels a later panel call made visible

mvars == <<ma, mb, mc>>
svars == <<config, panels, created, visible, shortcuts, rejected,
           toggle_regs, close_regs, inits, panicked, last, native>>
cvars == <<pc, arg, loc, made, seen, ret, ops, rw_writer, rw_readers, mutex,
           known, swept, reshown>>
vars == <<mvars, svars, cvars>>

\* Threads that call into the manager (window-lifecycle and shortcut threads).
Threads == {"t1", "t2"}

\* No thread is inside an operation and no lock is held.
ThreadsIdle ==
    /\ pc = [t \in Threads |-> "idle"]
    /\ arg = [t \in Threads |-> ""]
    /\ loc = [t \in Threads |-> <<>>]
    /\ made = [t \in Threads |-> None]
    /\ seen = [t \in Threads |-> None]
    /\ ret = [t \in Threads |-> "none"]
    /\ ops = 0
    /\ rw_writer = None
    /\ rw_readers = {}
    /\ mutex = [l \in WindowLabels |-> None]
    /\ known = [t \in Threads |-> {}]
    /\ swept = [t \in Threads |-> {}]
    /\ reshown = [t \in Threads |-> {}]

NoCall == [op |-> "none", label |-> "", ok |-> TRUE, close |-> "none"]

\* SpotlightManager::new(config) with no window initialised and nothing
\* registered with the backend.
ManagerInit ==
    /\ config \in ManagerConfigs
    /\ panels = [l \in WindowLabels |-> None]
    /\ created = [l \in WindowLabels |-> 0]
    /\ visible = [l \in WindowLabels |-> FALSE]
    /\ rejected \in RejectedChoices
    /\ shortcuts = [k \in Keys |-> None]
    /\ toggle_regs = [l \in WindowLabels |-> 0]
    /\ close_regs = 0
    /\ inits = [l \in WindowLabels |-> 0]
    /\ panicked = FALSE
    /\ last = NoCall
    /\ native = "none"

\* ------------------------------------------------------ merge as a machine
MergeInit ==
    /\ ma \in MergeConfigs
    /\ mb \in MergeConfigs
    /\ mc = None
    /\ ThreadsIdle
    /\ config = DefaultConfig
    /\ panels = [l \in WindowLabels |-> None]
    /\ created = [l \in WindowLabels |-> 0]
    /\ visible = [l \in WindowLabels |-> FALSE]
    /\ rejected = {}
    /\ shortcuts = [k \in Keys |-> None]
    /\ toggle_regs = [l \in WindowLabels |-> 0]
    /\ close_regs = 0
    /\ inits = [l \in WindowLabels |-> 0]
    /\ panicked = FALSE
    /\ last = NoCall
    /\ native = "none"

\* One call PluginConfig::merge(&ma, &mb).
Merge ==
    /\ mc = None
    /\ mc' = Some(merge(ma, mb))
    /\ UNCHANGED <<ma, mb>>
    /\ UNCHANGED svars
    /\ UNCHANGED cvars

MergeNext == Merge

SpecMerge == MergeInit /\ [][MergeNext]_vars

\* ------------------------------------------------------ shortcut backend
\* GlobalShortcutManager::register: refused when the key is already
\* registered in this process or held by another application.
backend_register(sc, rej, key, callback) ==
    IF sc[key] # None \/ key \in rej
    THEN [ok |-> FALSE, shortcuts |-> sc]
    ELSE [ok |-> TRUE, shortcuts |-> [sc EXCEPT ![key] = Some(callback)]]

\* GlobalShortcutManager::is_registered
backend_is_registered(sc, key) == sc[key] # None

\* ------------------------------------------------------------ panel
\* create_spotlight_panel: a new handle for the window, numbered per window.
create_spotlight_panel(cr, label) == cr[label] + 1

\* RawNSPanel::show
panel_show(vis, label) == [vis EXCEPT ![label] = TRUE]

\* RawNSPanel::order_out
panel_order_out(vis, label) == [vis EXCEPT ![label] = FALSE]

\* RawNSPanel::is_visible
panel_is_visible(vis, label) == vis[label]

\* ------------------------------------------------------ SpotlightManager
\* get_window_config: the first configured window with the label.
RECURSIVE first_with_label(_, _)
first_with_label(window_configs, label) ==
    IF window_configs = <<>> THEN None
    ELSE IF Head(window_configs).label = label THEN Some(Head(window_configs))
    ELSE first_with_label(Tail(window_configs), label)

get_window_config_any(cfg, label) ==
    IF cfg.windows # None /\ cfg.windows[1] # <<>>
    THEN Some(Head(cfg.windows[1]))
    ELSE None

get_window_config(cfg, label) ==
    IF cfg.windows # None THEN first_with_label(cfg.windows[1], label) ELSE None

\* register_shortcut_for_window: nothing without a shortcut, else one
\* backend registration of the toggle callback.
register_shortcut_for_window(sc, rej, label, window_config) ==
    IF window_config.shortcut = None
    THEN [ok |-> TRUE, shortcuts |-> sc, registered |-> FALSE]
    ELSE LET r == backend_register(sc, rej, window_config.shortcut[1],
                                   ToggleCallback(label))
         IN  [ok |-> r.ok, shortcuts |-> r.shortcuts, registered |-> r.ok]

\* register_close_shortcut; query_ok is the outcome of is_registered
\* (Ok or Err).
register_close_shortcut_unchecked(sc, rej, cfg, query_ok) ==
    IF cfg.global_close_shortcut = None
    THEN [ok |-> TRUE, shortcuts |-> sc, step |-> "none"]
    ELSE LET r == backend_register(sc, rej, cfg.global_close_shortcut[1], CloseCallback)
         IN  [ok |-> r.ok, shortcuts |-> r.shortcuts,
              step |-> IF r.ok THEN "registered" ELSE "failed"]

register_close_shortcut(sc, rej, cfg, query_ok) ==
    IF cfg.global_close_shortcut = None
    THEN [ok |-> TRUE, shortcuts |-> sc, step |-> "none"]
    ELSE LET close_shortcut == cfg.global_close_shortcut[1] IN
         IF ~query_ok
         THEN [ok |-> FALSE, shortcuts |-> sc, step |-> "query_failed"]
         ELSE IF ~backend_is_registered(sc, close_shortcut)
         THEN LET r == backend_register(sc, rej, close_shortcut, CloseCallback)
              IN  [ok |-> r.ok, shortcuts |-> r.shortcuts,
                   step |-> IF r.ok THEN "registered" ELSE "failed"]
         ELSE [ok |-> TRUE, shortcuts |-> sc, step |-> "skipped"]

\* The body of `if map.get(label).is_none() { ... }` in init_spotlight_window:
\* create the panel, register the toggle, register the close shortcut, and
\* insert only when both registrations returned Ok.
init_body(label, window_config, query_ok) ==
    LET panel  == create_spotlight_panel(created, label)
        toggle == register_shortcut_for_window(shortcuts, rejected, label, window_config)
        close  == IF toggle.ok
                  THEN register_close_shortcut(toggle.shortcuts, rejected, config, query_ok)
                  ELSE [ok |-> FALSE, shortcuts |-> toggle.shortcuts, step |-> "none"]
    IN  [ok      |-> toggle.ok /\ close.ok,
         panel   |-> panel,
         shortcuts |-> close.shortcuts,
         toggled |-> toggle.registered,
         step    |-> close.step]

\* SpotlightManager::init_spotlight_window
init_spotlight_window(label, query_ok) ==
    /\ inits[label] < MaxInit
    /\ inits' = [inits EXCEPT ![label] = @ + 1]
    /\ LET window_config == get_window_config(config, label) IN
       IF window_config = None \/ panels[label] # None
       THEN /\ last' = [op |-> "init", label |-> label, ok |-> TRUE, close |-> "none"]
            /\ UNCHANGED <<panels, created, shortcuts, toggle_regs, close_regs>>
       ELSE LET r == init_body(label, window_config[1], query_ok) IN
            /\ created' = [created EXCEPT ![label] = r.panel]
            /\ shortcuts' = r.shortcuts
            /\ toggle_regs' = [toggle_regs EXCEPT
                                 ![label] = IF r.toggled THEN @ + 1 ELSE @]
            /\ close_regs' = IF r.step = "registered" THEN close_regs + 1 ELSE close_regs
            /\ panels' = IF r.ok THEN [panels EXCEPT ![label] = Some(r.panel)] ELSE panels
            /\ last' = [op |-> "init", label |-> label, ok |-> r.ok, close |-> r.step]
    /\ native' = "none"
    /\ UNCHANGED <<config, visible, rejected, panicked>>
    /\ UNCHANGED mvars
    /\ UNCHANGED cvars

\* SpotlightManager::get_panel
get_panel(label) ==
    /\ last' = [op |-> "get_panel", label |-> label,
                ok |-> panels[label] # None, close |-> "none"]
    /\ native' = "none"
    /\ UNCHANGED <<config, panels, created, visible, shortcuts, rejected,
                   toggle_regs, close_regs, inits, panicked>>
    /\ UNCHANGED mvars
    /\ UNCHANGED cvars

\* SpotlightManager::show
show_or_error(label) ==
    /\ visible' = IF panels[label] # None THEN panel_show(visible, label) ELSE visible
    /\ native' = IF panels[label] # None THEN "show" ELSE "none"
    /\ last' = [op |-> "show", label |-> label,
                ok |-> panels[label] # None, close |-> "none"]
    /\ UNCHANGED <<config, panels, created, shortcuts, rejected,
                   toggle_regs, close_regs, inits, panicked>>
    /\ UNCHANGED mvars
    /\ UNCHANGED cvars

show(label) ==
    /\ visible' = IF panels[label] # None THEN panel_show(visible, label) ELSE visible
    /\ native' = IF panels[label] # None THEN "show" ELSE "none"
    /\ last' = [op |-> "show", label |-> label, ok |-> TRUE, close |-> "none"]
    /\ UNCHANGED <<config, panels, created, shortcuts, rejected,
                   toggle_regs, close_regs, inits, panicked>>
    /\ UNCHANGED mvars
    /\ UNCHANGED cvars

hide_if_visible(label) ==
    /\ visible' = IF panels[label] # None THEN panel_order_out(visible, label) ELSE visible
    /\ native' = IF panels[label] # None /\ panel_is_visible(visible, label)
                 THEN "order_out" ELSE "none"
    /\ last' = [op |-> "hide", label |-> label, ok |-> TRUE, close |-> "none"]
    /\ UNCHANGED <<config, panels, created, shortcuts, rejected,
                   toggle_regs, close_regs, inits, panicked>>
    /\ UNCHANGED mvars
    /\ UNCHANGED cvars

\* SpotlightManager::hide
hide(label) ==
    /\ visible' = IF panels[label] # None THEN panel_order_out(visible, label) ELSE visible
    /\ native' = IF panels[label] # None THEN "order_out" ELSE "none"
    /\ last' = [op |-> "hide", label |-> label, ok |-> TRUE, close |-> "none"]
    /\ UNCHANGED <<config, panels, created, shortcuts, rejected,
                   toggle_regs, close_regs, inits, panicked>>
    /\ UNCHANGED mvars
    /\ UNCHANGED cvars

\* The manager's methods called one at a time: each makes its effect under
\* one hold of the registry lock.  The shortcut closures hold no lock between
\* their steps; they are the thread steps toggle_* and close_* below.
Init ==
    /\ ManagerInit
    /\ ThreadsIdle
    /\ ma = DefaultConfig
    /\ mb = DefaultConfig
    /\ mc = None

Next ==
    \/ \E label \in WindowLabels, query_ok \in BOOLEAN :
          init_spotlight_window(label, query_ok)
    \/ \E label \in WindowLabels : get_panel(label)
    \/ \E label \in WindowLabels : show(label)
    \/ \E label \in WindowLabels : hide(label)

Spec == Init /\ [][Next]_vars

\* ------------------------------------------ the manager under threads
\* Most operations the threads start in one run.
MaxOps == 3

\* Variables no step of a thread changes.
conc_fixed == <<ma, mb, mc, config, rejected, last, native>>

\* The locals of init and of the toggle callback.
locals == <<made, seen>>

\* The history of the running close callbacks.
sweep == <<known, swept, reshown>>

\* The close callback of thread t has returned: its history is dropped.
end_sweep(t) ==
    /\ known' = [known EXCEPT ![t] = {}]
    /\ swept' = [swept EXCEPT ![t] = {}]
    /\ reshown' = [reshown EXCEPT ![t] = {}]

\* The history after a panel call left the visibilities `vis`: a swept label
\* that is visible was shown after its order_out.
after_panel_call(vis) ==
    [u \in Threads |-> reshown[u] \cup { l \in swept[u] : vis[l] }]

Goto(t, where) ==
    /\ pc' = [pc EXCEPT ![t] = where]
    /\ arg' = arg

\* The operation of thread t returns `result`.
Return(t, result) ==
    /\ pc' = [pc EXCEPT ![t] = "idle"]
    /\ arg' = [arg EXCEPT ![t] = ""]
    /\ ret' = [ret EXCEPT ![t] = result]

\* A thread enters an operation; a thread whose callback panicked has
\* unwound and enters nothing more, the other threads go on.
Enter(t, a, where) ==
    /\ ret[t] # "panic"
    /\ pc[t] = "idle"
    /\ ops < MaxOps
    /\ ops' = ops + 1
    /\ arg' = [arg EXCEPT ![t] = a]
    /\ pc' = [pc EXCEPT ![t] = where]

\* RwLock::write is granted when nobody holds the lock.
CanWrite == rw_writer = None /\ rw_readers = {}

\* RwLock::read is granted when no writer holds the lock.
CanRead == rw_writer = None

\* init_spotlight_window, lines 46-50: the configuration lookup; an
\* unconfigured window returns Ok(()) at once.
init_start(t, label) ==
    /\ inits[label] < MaxInit
    /\ IF get_window_config(config, label) = None
       THEN Enter(t, "", "idle")
       ELSE Enter(t, label, "init_write")
    /\ inits' = [inits EXCEPT ![label] = @ + 1]
    /\ ret' = [ret EXCEPT ![t] = IF get_window_config(config, label) = None
                                  THEN "Ok" ELSE @]
    /\ UNCHANGED <<panels, created, visible, shortcuts, toggle_regs, close_regs,
                   panicked, loc, rw_writer, rw_readers, mutex>>
    /\ UNCHANGED conc_fixed
    /\ UNCHANGED sweep
    /\ UNCHANGED locals

\* lines 51-52: take the write lock and look the label up; an existing entry
\* returns Ok(()) and drops the guard.
init_write(t) ==
    /\ pc[t] = "init_write"
    /\ CanWrite
    /\ IF panels[arg[t]] # None
       THEN /\ Return(t, "Ok")
            /\ UNCHANGED rw_writer
       ELSE /\ rw_writer' = Some(t)
            /\ Goto(t, "init_create")
            /\ UNCHANGED ret
    /\ UNCHANGED <<panels, created, visible, shortcuts, toggle_regs, close_regs,
                   inits, panicked, loc, ops, rw_readers, mutex>>
    /\ UNCHANGED conc_fixed
    /\ UNCHANGED sweep
    /\ UNCHANGED locals

\* line 53: create_spotlight_panel, the write guard alive.
init_create(t) ==
    /\ pc[t] = "init_create"
    /\ created' = [created EXCEPT ![arg[t]] = create_spotlight_panel(created, arg[t])]
    /\ made' = [made EXCEPT ![t] = Some(create_spotlight_panel(created, arg[t]))]
    /\ Goto(t, "init_toggle")
    /\ UNCHANGED <<loc, panels, visible, shortcuts, toggle_regs, close_regs,
                   inits, panicked, ret, ops, rw_writer, rw_readers, mutex>>
    /\ UNCHANGED conc_fixed
    /\ UNCHANGED sweep
    /\ UNCHANGED seen

\* line 54: register_shortcut_for_window(..)?; an Err returns and drops the
\* guard.
init_toggle(t) ==
    /\ pc[t] = "init_toggle"
    /\ LET r == register_shortcut_for_window(shortcuts, rejected, arg[t],
                    get_window_config(config, arg[t])[1]) IN
       /\ shortcuts' = r.shortcuts
       /\ toggle_regs' = [toggle_regs EXCEPT
                            ![arg[t]] = IF r.registered THEN @ + 1 ELSE @]
       /\ IF r.ok
          THEN /\ Goto(t, "init_close")
               /\ UNCHANGED <<ret, rw_writer>>
          ELSE /\ Return(t, "Err")
               /\ rw_writer' = None
       /\ made' = [made EXCEPT ![t] = IF r.ok THEN @ ELSE None]
    /\ UNCHANGED <<panels, created, visible, close_regs,
                   inits, panicked, loc, ops, rw_readers, mutex>>
    /\ UNCHANGED conc_fixed
    /\ UNCHANGED sweep
    /\ UNCHANGED seen

\* line 55: register_close_shortcut(..)?; an Err returns and drops the guard.
init_close(t, query_ok) ==
    /\ pc[t] = "init_close"
    /\ LET r == register_close_shortcut(shortcuts, rejected, config, query_ok) IN
       /\ shortcuts' = r.shortcuts
       /\ close_regs' = IF r.step = "registered" THEN close_regs + 1 ELSE close_regs
       /\ IF r.ok
          THEN /\ Goto(t, "init_insert")
               /\ UNCHANGED <<ret, rw_writer>>
          ELSE /\ Return(t, "Err")
               /\ rw_writer' = None
       /\ made' = [made EXCEPT ![t] = IF r.ok THEN @ ELSE None]
    /\ UNCHANGED <<panels, created, visible, toggle_regs,
                   inits, panicked, loc, ops, rw_readers, mutex>>
    /\ UNCHANGED conc_fixed
    /\ UNCHANGED sweep
    /\ UNCHANGED seen

\* lines 56-58: map.insert, Ok(()), and the guard is dropped.
init_insert(t) ==
    /\ pc[t] = "init_insert"
    /\ panels' = [panels EXCEPT ![arg[t]] = made[t]]
    /\ made' = [made EXCEPT ![t] = None]
    /\ rw_writer' = None
    /\ Return(t, "Ok")
    /\ UNCHANGED <<created, visible, shortcuts, toggle_regs, close_regs,
                   inits, panicked, loc, ops, rw_readers, mutex>>
    /\ UNCHANGED conc_fixed
    /\ UNCHANGED sweep
    /\ UNCHANGED seen

\* A call of get_panel, show or hide, or a firing of a registered callback.
op_start(t, a, where) ==
    /\ Enter(t, a, where)
    /\ UNCHANGED <<panels, created, visible, shortcuts, toggle_regs, close_regs,
                   inits, panicked, loc, ret, rw_writer, rw_readers, mutex>>
    /\ UNCHANGED conc_fixed
    /\ UNCHANGED sweep
    /\ UNCHANGED locals

get_panel_start(t, label) == op_start(t, label, "get_panel_read")
show_start(t, label) == op_start(t, label, "show_read")
hide_start(t, label) == op_start(t, label, "hide_read")

\* The key of a registered toggle shortcut is pressed.
toggle_start(t, key) ==
    /\ shortcuts[key] # None
    /\ shortcuts[key][1][1] = "toggle"
    /\ op_start(t, shortcuts[key][1][2], "toggle_read")

\* The key of the registered close shortcut is pressed; the closure collects
\* the configured labels (lines 139-143).
close_start(t, key) ==
    /\ shortcuts[key] = Some(CloseCallback)
    /\ Enter(t, "", "close_read")
    /\ loc' = [loc EXCEPT ![t] =
                 IF config.windows # None
                 THEN [i \in DOMAIN config.windows[1] |-> config.windows[1][i].label]
                 ELSE <<>>]
    /\ known' = [known EXCEPT ![t] = { l \in WindowLabels : panels[l] # None }]
    /\ swept' = [swept EXCEPT ![t] = {}]
    /\ reshown' = [reshown EXCEPT ![t] = {}]
    /\ UNCHANGED <<panels, created, visible, shortcuts, toggle_regs, close_regs,
                   inits, panicked, ret, rw_writer, rw_readers, mutex>>
    /\ UNCHANGED conc_fixed
    /\ UNCHANGED locals

\* panels.read() and map.get(label): without an entry the operation returns
\* `missing` and the guard is dropped; with one the thread goes on to the
\* panel's Mutex, holding the read guard.
read_lookup(t, here, missing, found) ==
    /\ pc[t] = here
    /\ CanRead
    /\ IF panels[arg[t]] = None
       THEN /\ Return(t, missing)
            /\ UNCHANGED rw_readers
       ELSE /\ rw_readers' = rw_readers \cup {t}
            /\ Goto(t, found)
            /\ UNCHANGED ret
    /\ UNCHANGED <<panels, created, visible, shortcuts, toggle_regs, close_regs,
                   inits, panicked, loc, ops, rw_writer, mutex>>
    /\ UNCHANGED conc_fixed
    /\ UNCHANGED sweep
    /\ UNCHANGED locals

\* get_panel, lines 62-63 and 67.
get_panel_read(t) == read_lookup(t, "get_panel_read", "Err", "get_panel_lock")

\* get_panel, lines 64-65: lock the panel, clone the handle, drop both guards.
get_panel_lock(t) ==
    /\ pc[t] = "get_panel_lock"
    /\ mutex[arg[t]] = None
    /\ rw_readers' = rw_readers \ {t}
    /\ Return(t, "Ok")
    /\ UNCHANGED <<panels, created, visible, shortcuts, toggle_regs, close_regs,
                   inits, panicked, loc, ops, rw_writer, mutex>>
    /\ UNCHANGED conc_fixed
    /\ UNCHANGED sweep
    /\ UNCHANGED locals

\* show, lines 72-73 and 77.
show_read(t) == read_lookup(t, "show_read", "Ok", "show_lock")

\* panel.lock() in show and hide (lines 74, 83): the guard stays alive.
panel_lock(t, here, next) ==
    /\ pc[t] = here
    /\ mutex[arg[t]] = None
    /\ mutex' = [mutex EXCEPT ![arg[t]] = Some(t)]
    /\ Goto(t, next)
    /\ UNCHANGED <<panels, created, visible, shortcuts, toggle_regs, close_regs,
                   inits, panicked, loc, ret, ops, rw_writer, rw_readers>>
    /\ UNCHANGED conc_fixed
    /\ UNCHANGED sweep
    /\ UNCHANGED locals

show_lock(t) == panel_lock(t, "show_lock", "show_native")

\* The native call of show or hide, then Ok(()) and both guards are dropped.
native_and_release_keep_read(t, here, vis) ==
    /\ pc[t] = here
    /\ visible' = vis
    /\ reshown' = after_panel_call(vis)
    /\ mutex' = [mutex EXCEPT ![arg[t]] = None]
    /\ Return(t, "Ok")
    /\ UNCHANGED <<panels, created, shortcuts, toggle_regs, close_regs,
                   inits, panicked, loc, ops, rw_writer, rw_readers>>
    /\ UNCHANGED conc_fixed
    /\ UNCHANGED <<known, swept>>
    /\ UNCHANGED locals

native_and_release(t, here, vis) ==
    /\ pc[t] = here
    /\ visible' = vis
    /\ reshown' = after_panel_call(vis)
    /\ mutex' = [mutex EXCEPT ![arg[t]] = None]
    /\ rw_readers' = rw_readers \ {t}
    /\ Return(t, "Ok")
    /\ UNCHANGED <<panels, created, shortcuts, toggle_regs, close_regs,
                   inits, panicked, loc, ops, rw_writer>>
    /\ UNCHANGED conc_fixed
    /\ UNCHANGED <<known, swept>>
    /\ UNCHANGED locals

\* show, lines 75-77: panel.show().
show_native(t) == native_and_release(t, "show_native", panel_show(visible, arg[t]))

\* hide, lines 81-82 and 86.
hide_read(t) == read_lookup(t, "hide_read", "Ok", "hide_lock")

hide_lock(t) == panel_lock(t, "hide_lock", "hide_native")

\* hide, lines 84-86: panel.order_out(None).
hide_native(t) == native_and_release(t, "hide_native", panel_order_out(visible, arg[t]))

\* The toggle closure, line 118: get_panel(label), and unwrap panics on Err:
\* the closure ends there, holding no guard.
toggle_read(t) ==
    /\ pc[t] = "toggle_read"
    /\ CanRead
    /\ IF panels[arg[t]] = None
       THEN /\ panicked' = TRUE
            /\ Return(t, "panic")
            /\ UNCHANGED rw_readers
       ELSE /\ rw_readers' = rw_readers \cup {t}
            /\ Goto(t, "toggle_lock")
            /\ UNCHANGED <<ret, panicked>>
    /\ UNCHANGED <<panels, created, visible, shortcuts, toggle_regs, close_regs,
                   inits, loc, ops, rw_writer, mutex>>
    /\ UNCHANGED conc_fixed
    /\ UNCHANGED sweep
    /\ UNCHANGED locals

\* get_panel inside a closure, lines 64-65: lock the panel, clone the
\* handle, drop both guards; the closure goes on with the clone.
clone_and_release_keep_guard(t, here, next) ==
    /\ pc[t] = here
    /\ mutex[IF arg[t] = "" THEN Head(loc[t]) ELSE arg[t]] = None
    /\ mutex' = [mutex EXCEPT ![IF arg[t] = "" THEN Head(loc[t]) ELSE arg[t]] = Some(t)]
    /\ rw_readers' = rw_readers \ {t}
    /\ Goto(t, next)
    /\ UNCHANGED <<panels, created, visible, shortcuts, toggle_regs, close_regs,
                   inits, panicked, loc, ret, ops, rw_writer>>
    /\ UNCHANGED conc_fixed
    /\ UNCHANGED sweep
    /\ UNCHANGED locals

clone_and_release(t, here, next) ==
    /\ pc[t] = here
    /\ mutex[IF arg[t] = "" THEN Head(loc[t]) ELSE arg[t]] = None
    /\ rw_readers' = rw_readers \ {t}
    /\ Goto(t, next)
    /\ UNCHANGED <<panels, created, visible, shortcuts, toggle_regs, close_regs,
                   inits, panicked, loc, ret, ops, rw_writer, mutex>>
    /\ UNCHANGED conc_fixed
    /\ UNCHANGED sweep
    /\ UNCHANGED locals

toggle_lock(t) == clone_and_release(t, "toggle_lock", "toggle_visible")

\* line 119: panel.is_visible()
toggle_visible(t) ==
    /\ pc[t] = "toggle_visible"
    /\ seen' = [seen EXCEPT ![t] = Some(panel_is_visible(visible, arg[t]))]
    /\ Goto(t, "toggle_native")
    /\ UNCHANGED <<loc, panels, created, visible, shortcuts, toggle_regs, close_regs,
                   inits, panicked, ret, ops, rw_writer, rw_readers, mutex>>
    /\ UNCHANGED conc_fixed
    /\ UNCHANGED sweep
    /\ UNCHANGED made

toggle_native_show_only(t) ==
    /\ pc[t] = "toggle_native"
    /\ visible' = panel_show(visible, arg[t])
    /\ reshown' = after_panel_call(panel_show(visible, arg[t]))
    /\ Goto(t, "toggle_return")
    /\ UNCHANGED <<panels, created, shortcuts, toggle_regs, close_regs,
                   inits, panicked, loc, ret, ops, rw_writer, rw_readers, mutex>>
    /\ UNCHANGED conc_fixed
    /\ UNCHANGED <<known, swept>>
    /\ UNCHANGED locals

\* lines 119-123: order_out when is_visible returned true, show otherwise.
toggle_native(t) ==
    /\ pc[t] = "toggle_native"
    /\ LET vis == IF seen[t][1] THEN panel_order_out(visible, arg[t])
                  ELSE panel_show(visible, arg[t]) IN
       /\ visible' = vis
       /\ reshown' = after_panel_call(vis)
    /\ Goto(t, "toggle_return")
    /\ UNCHANGED <<panels, created, shortcuts, toggle_regs, close_regs,
                   inits, panicked, loc, ret, ops, rw_writer, rw_readers, mutex>>
    /\ UNCHANGED conc_fixed
    /\ UNCHANGED <<known, swept>>
    /\ UNCHANGED locals

\* line 124: the closure ends and its locals are dropped.
toggle_return(t) ==
    /\ pc[t] = "toggle_return"
    /\ seen' = [seen EXCEPT ![t] = None]
    /\ Return(t, "Ok")
    /\ UNCHANGED <<panels, created, visible, shortcuts, toggle_regs, close_regs,
                   inits, panicked, loc, ops, rw_writer, rw_readers, mutex>>
    /\ UNCHANGED conc_fixed
    /\ UNCHANGED sweep
    /\ UNCHANGED made

close_read_until_missing(t) ==
    /\ pc[t] = "close_read"
    /\ IF loc[t] = <<>>
       THEN /\ Return(t, "Ok")
            /\ end_sweep(t)
            /\ UNCHANGED <<loc, rw_readers>>
       ELSE /\ CanRead
            /\ IF panels[Head(loc[t])] = None
               THEN /\ Return(t, "Ok")
                    /\ loc' = [loc EXCEPT ![t] = <<>>]
                    /\ end_sweep(t)
                    /\ UNCHANGED rw_readers
               ELSE /\ rw_readers' = rw_readers \cup {t}
                    /\ Goto(t, "close_lock")
                    /\ UNCHANGED <<loc, ret>>
                    /\ UNCHANGED sweep
    /\ UNCHANGED <<panels, created, visible, shortcuts, toggle_regs, close_regs,
                   inits, panicked, ops, rw_writer, mutex>>
    /\ UNCHANGED conc_fixed
    /\ UNCHANGED locals

\* The close closure, lines 144-145: the loop ends with the labels, else
\* get_panel(&label); an Err goes on with the next label.
close_read(t) ==
    /\ pc[t] = "close_read"
    /\ IF loc[t] = <<>>
       THEN /\ Return(t, "Ok")
            /\ end_sweep(t)
            /\ UNCHANGED <<loc, rw_readers>>
       ELSE /\ CanRead
            /\ IF panels[Head(loc[t])] = None
               THEN /\ loc' = [loc EXCEPT ![t] = Tail(@)]
                    /\ UNCHANGED <<pc, arg, ret, rw_readers>>
                    /\ UNCHANGED sweep
               ELSE /\ rw_readers' = rw_readers \cup {t}
                    /\ Goto(t, "close_lock")
                    /\ UNCHANGED <<loc, ret>>
                    /\ UNCHANGED sweep
    /\ UNCHANGED <<panels, created, visible, shortcuts, toggle_regs, close_regs,
                   inits, panicked, ops, rw_writer, mutex>>
    /\ UNCHANGED conc_fixed
    /\ UNCHANGED locals

close_lock(t) == clone_and_release(t, "close_lock", "close_native")

close_native_remove(t) ==
    /\ pc[t] = "close_native"
    /\ visible' = panel_order_out(visible, Head(loc[t]))
    /\ panels' = [panels EXCEPT ![Head(loc[t])] = None]
    /\ swept' = [swept EXCEPT ![t] = @ \cup {Head(loc[t])}]
    /\ reshown' = [u \in Threads |-> reshown[u] \ {Head(loc[t])}]
    /\ loc' = [loc EXCEPT ![t] = Tail(@)]
    /\ Goto(t, "close_read")
    /\ UNCHANGED <<created, shortcuts, toggle_regs, close_regs,
                   inits, panicked, ret, ops, rw_writer, rw_readers, mutex>>
    /\ UNCHANGED conc_fixed
    /\ UNCHANGED known
    /\ UNCHANGED locals

\* line 146: panel.order_out(None), then the next label.
close_native(t) ==
    /\ pc[t] = "close_native"
    /\ visible' = panel_order_out(visible, Head(loc[t]))
    /\ swept' = [swept EXCEPT ![t] = @ \cup {Head(loc[t])}]
    /\ reshown' = [u \in Threads |-> reshown[u] \ {Head(loc[t])}]
    /\ loc' = [loc EXCEPT ![t] = Tail(@)]
    /\ Goto(t, "close_read")
    /\ UNCHANGED <<panels, created, shortcuts, toggle_regs, close_regs,
                   inits, panicked, ret, ops, rw_writer, rw_readers, mutex>>
    /\ UNCHANGED conc_fixed
    /\ UNCHANGED known
    /\ UNCHANGED locals

\* A thread enters an operation.
ThreadStart(t) ==
    \/ \E label \in WindowLabels : init_start(t, label)
    \/ \E label \in WindowLabels : get_panel_start(t, label)
    \/ \E label \in WindowLabels : show_start(t, label)
    \/ \E label \in WindowLabels : hide_start(t, label)
    \/ \E key \in Keys : toggle_start(t, key)
    \/ \E key \in Keys : close_start(t, key)

\* A thread goes on inside its operation.
ThreadStep(t) ==
    \/ init_write(t)
    \/ init_create(t)
    \/ init_toggle(t)
    \/ \E query_ok \in BOOLEAN : init_close(t, query_ok)
    \/ init_insert(t)
    \/ get_panel_read(t)
    \/ get_panel_lock(t)
    \/ show_read(t)
    \/ show_lock(t)
    \/ show_native(t)
    \/ hide_read(t)
    \/ hide_lock(t)
    \/ hide_native(t)
    \/ toggle_read(t)
    \/ toggle_lock(t)
    \/ toggle_visible(t)
    \/ toggle_native(t)
    \/ toggle_return(t)
    \/ close_read(t)
    \/ close_lock(t)
    \/ close_native(t)

ConcNext == \E t \in Threads : ThreadStart(t) \/ ThreadStep(t)

\* The manager the threads share: two windows with their own toggle keys and
\* a close shortcut.
ConcInit ==
    /\ Init
    /\ config = PluginConfig(Some(<<Plain("main", Some("Ctrl+I")),
                                   Plain("foo", Some("bar"))>>),
                             Some("Escape"))

SpecConc == ConcInit /\ [][ConcNext]_vars

\* Every thread inside an operation is scheduled again.
SpecConcFair == SpecConc /\ \A t \in Threads : WF_vars(ThreadStep(t))

\* ------------------------------------------------- properties of merge
\* The window list of an Option<Vec<WindowConfig>>, [] when absent.
ListOf(opt) == IF opt = None THEN <<>> ELSE opt[1]

LabelCount(ws, l) == Cardinality({ i \in DOMAIN ws : ws[i].label = l })

DistinctLabels(ws) ==
    \A i, j \in DOMAIN ws : i # j => ws[i].label # ws[j].label

\* What the merge contract promises for the window list of merge(x, y).
ExpectedWindows(x, y) ==
    LET chosen   == IF x.windows # None THEN x.windows[1] ELSE ListOf(y.windows)
        fresh(e) == \A i \in DOMAIN chosen : chosen[i].label # e.label
        combined == chosen \o SelectSeq(ListOf(y.windows), fresh)
    IN  IF combined = <<>> THEN None ELSE Some(combined)

\* C1: merge(a, b).windows is a.windows if present (else b.windows), in
\* order, followed by every entry of b.windows whose label does not occur in
\* that chosen list, in b's order; it is None exactly when that list is empty.
C1_MergeWindows ==
    mc # None => mc[1].windows = ExpectedWindows(ma, mb)

\* C1 witness: a merge that kept a's one entry and appended two entries of b
\* that share a label a does not have.
C1_Witness ==
    /\ mc # None
    /\ ma.windows # None /\ mb.windows # None
    /\ Len(ma.windows[1]) = 1
    /\ Len(mb.windows[1]) = 2
    /\ mb.windows[1][1].label = mb.windows[1][2].label
    /\ mb.windows[1][1].label # ma.windows[1][1].label
    /\ Len(mc[1].windows[1]) = 3

\* C2 (as claimed): merging with the default configuration is the identity
\* on both sides for every configuration, Some(vec![]) included.
C2_Original ==
    mc # None =>
        /\ (mb = DefaultConfig => mc[1] = ma)
        /\ (ma = DefaultConfig => mc[1] = mb)

\* The configuration with a present-but-empty window list made absent.
EmptyToNone(cfg) ==
    IF cfg.windows = Some(<<>>) THEN [cfg EXCEPT !.windows = None] ELSE cfg

\* C2 (amended): merging with the default configuration returns the other
\* configuration unchanged, except that a present-but-empty window list
\* comes back as None.
C2_MergeDefaultIdentity ==
    mc # None =>
        /\ (mb = DefaultConfig => mc[1] = EmptyToNone(ma))
        /\ (ma = DefaultConfig => mc[1] = EmptyToNone(mb))

\* C2 witness: the default configuration merged with a configuration that
\* has windows and a close shortcut.
C2_Witness ==
    /\ mc # None
    /\ ma = DefaultConfig
    /\ mb.windows # None /\ Len(mb.windows[1]) = 2
    /\ mb.global_close_shortcut # None
    /\ mc[1] = mb

\* C3 (as claimed): the labels of merge(a, b).windows are pairwise distinct
\* for all inputs.
C3_Original ==
    mc # None => DistinctLabels(ListOf(mc[1].windows))

\* C3 (amended): the labels of merge(a, b).windows are pairwise distinct
\* whenever the labels within a.windows and within b.windows are; merge
\* removes no repetition that lies inside one input list, so a repeated label
\* in the chosen list is repeated in the result.
C3_MergeLabelsDistinct ==
    mc # None =>
        /\ (DistinctLabels(ListOf(ma.windows)) /\ DistinctLabels(ListOf(mb.windows))
                => DistinctLabels(ListOf(mc[1].windows)))
        /\ (~DistinctLabels(chosen_windows(ma, mb))
                => ~DistinctLabels(ListOf(mc[1].windows)))

\* C3 witness: both inputs have two windows with distinct labels, sharing
\* the labels, and the merge kept two.
C3_Witness ==
    /\ mc # None
    /\ Len(ListOf(ma.windows)) = 2 /\ DistinctLabels(ListOf(ma.windows))
    /\ Len(ListOf(mb.windows)) = 2 /\ DistinctLabels(ListOf(mb.windows))
    /\ ListOf(ma.windows) # ListOf(mb.windows)
    /\ Len(ListOf(mc[1].windows)) = 2

\* The entries of a window list that carry label l, in order.
WithLabel(ws, l) == SelectSeq(ws, LAMBDA e : e.label = l)

\* C4 (as claimed): a label defined in both a.windows and b.windows has
\* exactly one entry in merge(a, b).windows, and it equals a's entry.
C4_Original ==
    mc # None =>
        \A i \in DOMAIN ListOf(ma.windows) :
            LET e == ma.windows[1][i] IN
            LabelCount(ListOf(mb.windows), e.label) >= 1
            => WithLabel(ListOf(mc[1].windows), e.label) = <<e>>

\* C4 (amended): for a label defined in both a.windows and b.windows the
\* entries of merge(a, b).windows with that label are exactly a's entries
\* with that label, in a's order and equal in every field: one entry when
\* the label occurs once in a.windows, and nothing of b's entries.
C4_PrimaryEntriesWin ==
    mc # None =>
        \A i \in DOMAIN ListOf(ma.windows) :
            LET l == ma.windows[1][i].label IN
            LabelCount(ListOf(mb.windows), l) >= 1
            => /\ WithLabel(ListOf(mc[1].windows), l) = WithLabel(ma.windows[1], l)
               /\ (LabelCount(ma.windows[1], l) = 1
                     => WithLabel(ListOf(mc[1].windows), l) = <<ma.windows[1][i]>>)

\* C4 witness: a's entry has no shortcut, b's entry of the same label has
\* one, and the merge was made.
C4_Witness ==
    /\ mc # None
    /\ \E i \in DOMAIN ListOf(ma.windows), j \in DOMAIN ListOf(mb.windows) :
          /\ ma.windows[1][i].label = mb.windows[1][j].label
          /\ LabelCount(ma.windows[1], ma.windows[1][i].label) = 1
          /\ ma.windows[1][i].shortcut = None
          /\ mb.windows[1][j].shortcut # None

\* C5: merge(a, b).global_close_shortcut is a's when a defines it and b's
\* otherwise.
C5_CloseShortcutPrecedence ==
    mc # None =>
        mc[1].global_close_shortcut =
            IF ma.global_close_shortcut # None
            THEN ma.global_close_shortcut
            ELSE mb.global_close_shortcut

\* C5 witness: both define the close shortcut, with different keys.
C5_Witness ==
    /\ mc # None
    /\ ma.global_close_shortcut = Some("Escape")
    /\ mb.global_close_shortcut = Some("baz")
    /\ mc[1].global_close_shortcut = Some("Escape")

\* --------------------------------------------- properties of the manager
\* C6 (as claimed): however earlier calls ended, repeated
\* init_spotlight_window calls for one label create at most one panel handle
\* and register its toggle shortcut at most once.
C6_Original ==
    \A l \in WindowLabels : created[l] <= 1 /\ toggle_regs[l] <= 1

\* C7 (as claimed): once a panel was created for a label, also by an init
\* that returned an error, a programmatic show(label) makes it visible and a
\* hide(label) hides it.
C7_Original ==
    /\ (last.op = "show" /\ created[last.label] > 0 => visible[last.label])
    /\ (last.op = "hide" /\ created[last.label] > 0 => ~visible[last.label])

\* C8: show(label) and hide(label) for a label without a registry entry
\* return Ok and leave the registry and every panel's visibility unchanged.
C8_ShowHideUnmanagedNoop ==
    [][ \A l \in WindowLabels :
          ((show(l) \/ hide(l)) /\ panels[l] = None)
          => (last'.ok /\ panels' = panels /\ visible' = visible) ]_vars

\* C8 witness: show returned Ok for the unconfigured window while the panel
\* of another window is visible.
C8_Witness ==
    /\ last = [op |-> "show", label |-> "other", ok |-> TRUE, close |-> "none"]
    /\ panels["other"] = None
    /\ panels["main"] # None
    /\ visible["main"]
    /\ ~visible["other"]

\* C9: the close shortcut is registered with the backend at most once, and
\* an init that reaches register_close_shortcut and finds the close callback
\* already registered registers nothing more and returns Ok with its panel
\* inserted.
C9_CloseRegisteredOnce ==
    /\ [](close_regs <= 1)
    /\ [][ \A l \in WindowLabels :
             LET wc == get_window_config(config, l) IN
             ( /\ init_spotlight_window(l, TRUE)
               /\ wc # None
               /\ panels[l] = None
               /\ register_shortcut_for_window(shortcuts, rejected, l, wc[1]).ok
               /\ config.global_close_shortcut # None
               /\ shortcuts[config.global_close_shortcut[1]] = Some(CloseCallback) )
             => ( /\ last'.ok
                  /\ close_regs' = close_regs
                  /\ panels'[l] # None ) ]_vars

\* C9 witness: two windows are initialised, the second init skipped the
\* close registration, and one close registration exists.
C9_Witness ==
    /\ close_regs = 1
    /\ panels["main"] # None
    /\ panels["foo"] # None
    /\ last.op = "init" /\ last.ok /\ last.close = "skipped"

\* C10 (as claimed): init returns Ok with its panel registered only when the
\* configured keys are held by this system's own callbacks; a key claimed by
\* anything else makes init fail.
C10_Original ==
    (last.op = "init" /\ last.ok /\ panels[last.label] # None)
    => LET wc == get_window_config(config, last.label)[1] IN
       /\ (wc.shortcut # None
             => shortcuts[wc.shortcut[1]] = Some(ToggleCallback(last.label)))
       /\ (config.global_close_shortcut # None
             => shortcuts[config.global_close_shortcut[1]] = Some(CloseCallback))

\* The labels of the windows of a configuration.
ConfiguredLabels(cfg) ==
    { ListOf(cfg.windows)[i].label : i \in DOMAIN ListOf(cfg.windows) }

\* C14 (as claimed): show issues the native show call only for a hidden
\* panel and hide issues the native hide call only for a visible one.
C14_Original ==
    [][ \A l \in WindowLabels :
          /\ (show(l) /\ native' = "show" => ~visible[l])
          /\ (hide(l) /\ native' = "order_out" => visible[l]) ]_vars

\* C14 (amended): show(label) issues the native show call and hide(label)
\* the native hide call whenever the label has a registry entry, whatever
\* the panel's current visibility, and neither issues a call without one.
C14_NativeCallWheneverRegistered ==
    [][ \A l \in WindowLabels :
          /\ (show(l) => native' = IF panels[l] # None THEN "show" ELSE "none")
          /\ (hide(l) => native' = IF panels[l] # None THEN "order_out" ELSE "none")
       ]_vars

\* C14 witness: hide has issued its native call for a registered panel.
C14_Witness ==
    /\ last.op = "hide"
    /\ panels[last.label] # None
    /\ native = "order_out"
    /\ ~visible[last.label]

\* C17: init_spotlight_window for a label that matches no configured window
\* returns Ok and changes nothing: no panel, no entry, no registration.
C17_InitUnconfiguredNoop ==
    [][ \A l \in WindowLabels, q \in BOOLEAN :
          (init_spotlight_window(l, q) /\ l \notin ConfiguredLabels(config))
          => /\ last'.ok
             /\ UNCHANGED <<panels, created, visible, shortcuts,
                            toggle_regs, close_regs>> ]_vars

\* C17 witness: init returned Ok for the unconfigured window while a close
\* shortcut is configured, and nothing is created or registered.
C17_Witness ==
    /\ last = [op |-> "init", label |-> "other", ok |-> TRUE, close |-> "none"]
    /\ config.windows # None
    /\ config.global_close_shortcut # None
    /\ \A l \in WindowLabels : created[l] = 0 /\ panels[l] = None
    /\ \A k \in Keys : shortcuts[k] = None

\* ------------------------------------- properties of the threaded manager
\* Thread t holds the registry's RwLock or a panel's Mutex.
HoldsLock(t) ==
    \/ rw_writer = Some(t)
    \/ t \in rw_readers
    \/ \E l \in WindowLabels : mutex[l] = Some(t)

\* Positions whose next step is a panel call or a shortcut-backend call.
InitNativePcs == {"init_create", "init_toggle", "init_close"}
ShowHideNativePcs == {"show_native", "hide_native"}
CallbackNativePcs == {"toggle_visible", "toggle_native", "close_native"}

\* C13 (as claimed): no thread holds a registry lock when it makes a panel
\* call or a shortcut-backend call.
C13_Original ==
    \A t \in Threads :
        pc[t] \in InitNativePcs \cup ShowHideNativePcs \cup CallbackNativePcs
        => ~HoldsLock(t)

\* C13 (amended): only the callbacks make their panel calls with the locks
\* released; init_spotlight_window makes its panel and backend calls holding
\* the write lock, and show and hide make theirs holding the read lock and
\* the panel's Mutex.
C13_LocksAcrossNativeCalls ==
    \A t \in Threads :
        /\ (pc[t] \in InitNativePcs => rw_writer = Some(t))
        /\ (pc[t] \in ShowHideNativePcs
              => t \in rw_readers /\ mutex[arg[t]] = Some(t))
        /\ (pc[t] \in CallbackNativePcs => ~HoldsLock(t))

\* C13 witness: one thread is about to call panel.show() inside show while
\* the other is about to make the panel call of a toggle callback.
C13_Witness ==
    \E t, u \in Threads :
        /\ pc[t] = "show_native" /\ t \in rw_readers
        /\ pc[u] = "toggle_native" /\ ~HoldsLock(u)

\* C11 (as claimed): every firing of a toggle callback flips its panel: the
\* panel call it makes leaves the panel in the opposite of the state the
\* panel was in just before the call.
C11_Original ==
    [][ \A t \in Threads :
          toggle_native(t) => visible'[arg[t]] = ~visible[arg[t]] ]_vars

\* C11 (amended): a firing reads the panel's native visibility when it runs
\* (no cached flag) and then calls order_out when it read visible and show
\* when it read hidden, so the call leaves the panel in the opposite of the
\* state read and changes no other panel; the call flips the panel when no
\* other operation changed the panel between the read and the call.
C11_ToggleByReadVisibility ==
    [][ \A t \in Threads :
          /\ (toggle_visible(t) => seen'[t] = Some(visible[arg[t]]))
          /\ (toggle_native(t)
                => /\ visible'[arg[t]] = ~seen[t][1]
                   /\ \A o \in WindowLabels \ {arg[t]} : visible'[o] = visible[o]
                   /\ (visible[arg[t]] = seen[t][1]
                         => visible'[arg[t]] = ~visible[arg[t]])) ]_vars

\* C11 witness: a firing has read its panel visible (an earlier show or
\* firing made it so) and has hidden it with its call.
C11_Witness ==
    \E t \in Threads :
        /\ pc[t] = "toggle_return"
        /\ panels[arg[t]] # None
        /\ seen[t] = Some(TRUE)
        /\ ~visible[arg[t]]

\* Positions inside the close callback.
ClosePcs == {"close_read", "close_lock", "close_native"}

\* Thread t's close callback returns with this step.
CloseReturns(t) == pc[t] \in ClosePcs /\ pc'[t] = "idle"

\* C12 (as claimed): when the close callback finishes, every panel that was
\* in the registry when it started is hidden.
C12_Original ==
    [][ \A t \in Threads :
          CloseReturns(t) => \A l \in known[t] : ~visible'[l] ]_vars

\* C12 (amended): by the time the close callback finishes it has called
\* order_out on every panel that was in the registry when it started, and
\* such a panel is hidden at that moment unless another operation showed it
\* after that call; a configured label without an entry is skipped: the
\* iteration goes on with the next label and the callback returns normally.
C12_CloseSweepsAll ==
    [][ \A t \in Threads :
          /\ (close_native(t) => ~visible'[Head(loc[t])])
          /\ (CloseReturns(t)
                => /\ known[t] \subseteq swept[t]
                   /\ \A l \in swept[t] \ reshown[t] : ~visible'[l]
                   /\ loc[t] = <<>>
                   /\ ret'[t] = "Ok"
                   /\ panicked' = panicked) ]_vars

\* C12 witness: a close callback is about to return having skipped the first
\* configured label, which has no entry, and hidden the registered panel of
\* the second.
C12_Witness ==
    \E t \in Threads :
        /\ pc[t] = "close_read" /\ loc[t] = <<>>
        /\ panels[config.windows[1][1].label] = None
        /\ known[t] = {config.windows[1][2].label}
        /\ swept[t] = known[t]
        /\ reshown[t] = {}
        /\ ~visible[config.windows[1][2].label]

\* C18 (as claimed): the lookup of a registered toggle callback always
\* finds its panel, so its unwrap never panics.
C18_Original ==
    ~panicked

\* C16: under every interleaving of init, get_panel, show, hide and the two
\* callbacks, an entry of the registry is never removed or replaced (each
\* label keeps the one handle first inserted for it), and every key of the
\* registry is a configured label.
C16_RegistryOnlyGrows ==
    /\ [][ \A l \in WindowLabels : panels[l] # None => panels'[l] = panels[l] ]_vars
    /\ [](\A l \in WindowLabels : Len(panels[l]) <= 1)
    /\ [](\A l \in WindowLabels : panels[l] # None => l \in ConfiguredLabels(config))

\* C16 witness: two init calls for one label have run, and a close callback
\* has since gone over the registry and hidden that label's panel; the entry
\* is still the first panel.
C16_Witness ==
    \E t, u \in Threads :
        /\ t # u /\ pc[u] = "idle"
        /\ inits["main"] = 2
        /\ panels["main"] = Some(1)
        /\ pc[t] = "close_read" /\ loc[t] = <<>>
        /\ swept[t] = {"main"}

\* C15 (as claimed): under any interleaving of init_spotlight_window calls
\* for one label, exactly one call creates a panel and registers the toggle.
C15_Original ==
    \A l \in WindowLabels : created[l] <= 1 /\ toggle_regs[l] <= 1

\* C19: under fair scheduling every operation a thread is inside of comes
\* to its end, whatever the other thread does: no thread waits for the
\* RwLock or a panel's Mutex forever.
C19_EveryOperationCompletes ==
    \A t \in Threads : (pc[t] # "idle") ~> (pc[t] = "idle")

\* C19 witness: a thread waits for the write lock while the other holds the
\* read lock and a panel's Mutex.
C19_Witness ==
    \E t, u \in Threads :
        /\ pc[t] = "init_write"
        /\ u \in rw_readers
        /\ \E l \in WindowLabels : mutex[l] = Some(u)
====
